---- MODULE Spec2Model ----
(***************************************************************************)
(* A model of delta/imagery/sources/basic_sources.py: the region splitters *)
(* horizontal_split and tile_split, the chunk validity filter              *)
(* parallel_filter_chunks, and the DeltaImage handles (TFRecordImage,      *)
(* SimpleTiff, RGBAImage) with tiles() and estimate_memory_usage().        *)
(*                                                                         *)
(* Python's float is IEEE-754 binary64.  The source divides and multiplies *)
(* in floating point before taking math.floor, so the model carries a      *)
(* bit-exact binary64 arithmetic (round to nearest, ties to even) for the  *)
(* operations the source performs: int/int true division, float*int,       *)
(* float/int and math.floor.  Magnitudes stay far inside the normal range, *)
(* so subnormals, infinities and NaN are not modelled.                     *)
(***************************************************************************)
EXTENDS Integers, Sequences, FiniteSets, TLC

----------------------------------------------------------------------------
(* Bounds of the model. *)

\* image widths are 1..MaxWidth
MaxWidth == 3
\* image heights are 1..MaxHeight
MaxHeight == 15
\* split counts (num_splits, num_regions) are 1..MaxSplits
MaxSplits == 11
\* tile_split is applied with split counts up to MaxTileSplits
MaxTileSplits == 4
\* a chunk batch holds 0..MaxChunks chunks
MaxChunks == 15
\* parallel_filter_chunks runs with 1..MaxThreads threads
MaxThreads == 11
\* a chunk is ChunkWidth x ChunkHeight pixels
ChunkWidth == 2
ChunkHeight == 1
\* a handle has 1..MaxRegions regions
MaxRegions == 2
\* an image has 1..MaxBands bands
MaxBands == 2
\* at most MaxCalls calls are made on a handle
MaxCalls == 3
\* chunk sizes are 1..MaxChunkSize
MaxChunkSize == 7
\* chunk overlaps are 0..MaxOverlap
MaxOverlap == 2

----------------------------------------------------------------------------
(* binary64 arithmetic *)

\* significand width of a Python float
MantBits == 53

\* The significand is kept in three limbs <<m2, m1, m0>> of LimbBits binary
\* digits (the top limb m2 has the TopBits digits left over), so that every
\* intermediate product stays a small integer.  The ints that multiply or
\* divide a float in the source are all far below 2^13 here.
LimbBits == (MantBits + 1) \div 3

LimbBase == 2^LimbBits

TopBits == MantBits - 2 * LimbBits

Abs(n) == IF n < 0 THEN -n ELSE n

Sign(n) == IF n < 0 THEN -1 ELSE 1

\* the number of binary digits of a natural v < 2^30
BitLen(v) == CHOOSE n \in 0..30 : v < 2^n /\ (n = 0 \/ v >= 2^(n - 1))

\* A float is sign * (m2 * LimbBase^2 + m1 * LimbBase + m0) * 2^exp with
\* 2^(MantBits-1) <= significand < 2^MantBits; FZero is the float 0.0.
FZero == [sign |-> 1, m |-> <<0, 0, 0>>, exp |-> 0]

\* the float 1.0
FOne == [sign |-> 1, m |-> <<2^(TopBits - 1), 0, 0>>, exp |-> -(MantBits - 1)]

\* the number of binary digits of the four-limb natural w (most
\* significant limb first)
WideLen(w) ==
  IF w[1] > 0 THEN 3 * LimbBits + BitLen(w[1])
  ELSE IF w[2] > 0 THEN 2 * LimbBits + BitLen(w[2])
  ELSE IF w[3] > 0 THEN LimbBits + BitLen(w[3])
  ELSE BitLen(w[4])

\* w with its s least significant digits dropped, 0 <= s <= LimbBits
ShiftRight(w, s) ==
  LET up == 2^(LimbBits - s)
      lo(v) == v % 2^s
      hi(v) == v \div 2^s
  IN  << hi(w[1]),
         hi(w[2]) + lo(w[1]) * up,
         hi(w[3]) + lo(w[2]) * up,
         hi(w[4]) + lo(w[3]) * up >>

\* FRound rounds sign * (w + f) * 2^exp to the nearest float, ties to even,
\* where w is a four-limb natural of MantBits .. MantBits + LimbBits digits
\* and f is a fraction in [0, 1) that is non-zero exactly when inexact.
FRound(sign, w, exp, inexact) ==
  LET s    == WideLen(w) - MantBits
      sh   == ShiftRight(w, s)
      d    == w[4] % 2^s
      half == IF s > 0 THEN 2^(s - 1) ELSE 1
      up   == s > 0 /\ (d > half \/ (d = half /\ (inexact \/ sh[4] % 2 = 1)))
      m    == IF ~up THEN <<sh[2], sh[3], sh[4]>>
              ELSE IF sh[4] + 1 < LimbBase THEN <<sh[2], sh[3], sh[4] + 1>>
              ELSE IF sh[3] + 1 < LimbBase THEN <<sh[2], sh[3] + 1, 0>>
              ELSE <<sh[2] + 1, 0, 0>>
  IN  IF m[1] = 2^TopBits
        THEN [sign |-> sign, m |-> <<2^(TopBits - 1), 0, 0>>, exp |-> exp + s + 1]
        ELSE [sign |-> sign, m |-> m, exp |-> exp + s]

\* x * k for a float x and an int k (k converts to float exactly): the
\* significand times |k| limb by limb from the least significant, each limb
\* passing its carry up, then rounded
FMulInt(x, k) ==
  IF k = 0 \/ x = FZero THEN FZero
  ELSE
    LET p0 == x.m[3] * Abs(k)
        p1 == x.m[2] * Abs(k) + p0 \div LimbBase
        p2 == x.m[1] * Abs(k) + p1 \div LimbBase
        w  == <<p2 \div LimbBase, p2 % LimbBase, p1 % LimbBase, p0 % LimbBase>>
    IN  FRound(x.sign * Sign(k), w, x.exp, FALSE)

\* float(n) for an int n
FromInt(n) == FMulInt(FOne, n)

\* x / k for a float x and a non-zero int k: long division of the
\* significand, extended by one limb of zeros, limb by limb from the most
\* significant, each limb passing its remainder down; the quotient has more
\* than MantBits digits, so FRound sees the guard digit, and the final
\* remainder tells whether anything lies below the quotient.
FDivInt(x, k) ==
  IF x = FZero THEN FZero
  ELSE
    LET d  == Abs(k)
        c2 == x.m[1]
        c1 == (c2 % d) * LimbBase + x.m[2]
        c0 == (c1 % d) * LimbBase + x.m[3]
        ce == (c0 % d) * LimbBase
        w  == <<c2 \div d, c1 \div d, c0 \div d, ce \div d>>
    IN  FRound(x.sign * Sign(k), w, x.exp - LimbBits, ce % d # 0)

\* a / b for ints a, b (Python true division), b # 0
IntTrueDiv(a, b) == FDivInt(FromInt(a), b)

\* math.floor(x) for a float x
Floor(x) ==
  IF x = FZero THEN 0
  ELSE
    LET t    == -x.exp
        m2   == x.m[1]
        m1   == x.m[2]
        m0   == x.m[3]
        int  == IF t <= 0 THEN ((m2 * LimbBase + m1) * LimbBase + m0) * 2^(-t)
                ELSE IF t >= MantBits THEN 0
                ELSE IF t >= 2 * LimbBits THEN m2 \div 2^(t - 2 * LimbBits)
                ELSE IF t >= LimbBits
                  THEN m2 * 2^(2 * LimbBits - t) + m1 \div 2^(t - LimbBits)
                ELSE (m2 * LimbBase + m1) * 2^(LimbBits - t) + m0 \div 2^t
        frac == IF t <= 0 THEN FALSE
                ELSE IF t >= MantBits THEN TRUE
                ELSE IF t >= 2 * LimbBits
                  THEN m2 % 2^(t - 2 * LimbBits) # 0 \/ m1 # 0 \/ m0 # 0
                ELSE IF t >= LimbBits
                  THEN m1 % 2^(t - LimbBits) # 0 \/ m0 # 0
                ELSE m0 % 2^t # 0
    IN  IF x.sign = 1 THEN int
        ELSE -(int + (IF frac THEN 1 ELSE 0))

\* x < y for non-negative floats
FLess(x, y) ==
  IF y = FZero THEN FALSE
  ELSE IF x = FZero THEN TRUE
  ELSE IF x.exp # y.exp THEN x.exp < y.exp
  ELSE IF x.m[1] # y.m[1] THEN x.m[1] < y.m[1]
  ELSE IF x.m[2] # y.m[2] THEN x.m[2] < y.m[2]
  ELSE x.m[3] < y.m[3]

FLeq(x, y) == x = y \/ FLess(x, y)

----------------------------------------------------------------------------
(* The region splitters: horizontal_split, tile_split and                  *)
(* DeltaImage.tiles().                                                      *)

VARIABLES
  fn,          \* the splitter function last applied ("idle" before any)
  image_size,  \* <<width, height>> (image_size[0], image_size[1] in Python)
  num_splits,  \* num_splits of the split functions, _num_regions of tiles()
  region,      \* the region argument (the loop variable i inside tiles())
  ret          \* what the call produced

splitVars == <<fn, image_size, num_splits, region, ret>>

\* rectangle.Rectangle(min_x, min_y, max_x, max_y)
Rectangle(min_x, min_y, max_x, max_y) ==
  [min_x |-> min_x, min_y |-> min_y, max_x |-> max_x, max_y |-> max_y]

NoRect == Rectangle(0, 0, 0, 0)

\* a call that returned a Rectangle
Returned(r) == [status |-> "Rectangle", rect |-> r]

\* a call that ended in an exception
Raised(e) == [status |-> e, rect |-> NoRect]

NoCall == [status |-> "none", rect |-> NoRect]

horizontal_split(size, reg, n) ==
  IF ~(reg < n) THEN Raised("AssertionError")
  ELSE
    LET min_x       == 0
        max_x       == size[1]
        band_height == IntTrueDiv(size[2], n)
        min_y       == Floor(FMulInt(band_height, reg))
        max_y       == Floor(FMulInt(band_height, reg + 1))
    IN  Returned(Rectangle(min_x, min_y, max_x, max_y))

tile_split(size, reg, n) ==
  LET num_tiles == n * n IN
  IF ~(reg < num_tiles) THEN Raised("AssertionError")
  ELSE
    LET tile_row    == Floor(IntTrueDiv(reg, n))
        tile_col    == reg % n
        tile_width  == Floor(IntTrueDiv(size[1], n))
        tile_height == Floor(IntTrueDiv(size[2], n))
        min_x       == tile_width * tile_col
        max_x       == Floor(FMulInt(FromInt(tile_col + 1), tile_width))
        min_y       == tile_height * tile_row
        max_y       == Floor(FMulInt(FromInt(tile_row + 1), tile_height))
    IN  Returned(Rectangle(min_x, min_y, max_x, max_y))

ImageSizes == (1..MaxWidth) \X (1..MaxHeight)

SplitInit ==
  /\ fn = "idle"
  /\ image_size \in ImageSizes
  /\ num_splits \in 1..MaxSplits
  /\ region = 0
  /\ ret = NoCall

\* horizontal_split(image_size, r, num_splits)
HorizontalSplit(r) ==
  /\ fn = "idle"
  /\ fn' = "horizontal_split"
  /\ region' = r
  /\ ret' = horizontal_split(image_size, r, num_splits)
  /\ UNCHANGED <<image_size, num_splits>>

\* tile_split(image_size, r, num_splits)
TileSplit(r) ==
  /\ fn = "idle"
  /\ num_splits <= MaxTileSplits
  /\ fn' = "tile_split"
  /\ region' = r
  /\ ret' = tile_split(image_size, r, num_splits)
  /\ UNCHANGED <<image_size, num_splits>>

\* One resumption of the generator tiles() of a handle whose size() is
\* image_size and whose _num_regions is num_splits: the loop variable
\* advances and the next ROI is yielded.
TilesYield ==
  LET i == IF fn = "tiles" THEN region + 1 ELSE 0 IN
  /\ fn \in {"idle", "tiles"}
  /\ i < num_splits
  /\ fn' = "tiles"
  /\ region' = i
  /\ ret' = horizontal_split(image_size, i, num_splits)
  /\ UNCHANGED <<image_size, num_splits>>

\* no splitter call in progress
SplitIdle ==
  /\ fn = "idle"
  /\ image_size = <<1, 1>>
  /\ num_splits = 1
  /\ region = 0
  /\ ret = NoCall

----------------------------------------------------------------------------
(* The chunk validity filter parallel_filter_chunks(data, num_threads).    *)
(* data is a batch of chunks that answers shape() with (num_chunks,        *)
(* num_bands, width, height); only band 0 of a chunk is inspected, so a    *)
(* chunk is modelled by the pixels of its band 0.  The pool runs one task  *)
(* per split; a task examines one chunk per step, in any interleaving      *)
(* with the other tasks, and pool.map returns when every task has ended.   *)

VARIABLES
  data,          \* the batch: data[i+1] is the band-0 pixels of chunk i
  num_threads,
  pc,            \* "start", "pool" (tasks running), "done" (returned)
  valid_chunks,  \* the shared flag list, valid_chunks[i+1] for chunk i
  splits,        \* splits[w] = <<start_index, stop_index>> of task w
  loop_i,        \* loop_i[w]: the next chunk index task w examines
  valid_indices  \* the indices of the chunks returned

filterVars ==
  <<data, num_threads, pc, valid_chunks, splits, loop_i, valid_indices>>

num_chunks == Len(data)

num_chunk_pixels == ChunkWidth * ChunkHeight

\* np.count_nonzero(chunk)
count_nonzero(chunk) == Cardinality({p \in 1..Len(chunk) : chunk[p] # 0})

FullChunk == [p \in 1..num_chunk_pixels |-> 1]

\* the chunks whose first c pixels hold data and whose other pixels are zero:
\* the all-zero chunk, the partly-zero chunks and the full chunk
Chunks ==
  {[p \in 1..num_chunk_pixels |-> IF p <= c THEN 1 ELSE 0] :
      c \in 0..num_chunk_pixels}

\* the batches of k chunks that are full except, at most, for the first or
\* for the last chunk (the chunks at the two ends of the index range)
Batches(k) ==
  {[i \in 1..k |-> FullChunk]} \cup
  {[i \in 1..k |-> IF i = z THEN c ELSE FullChunk] :
      z \in {1, k} \cap 1..k, c \in Chunks \ {FullChunk}}

\* lines 25-30: the index range of each of the n tasks over k chunks
compute_splits(k, n) ==
  LET thread_size == IntTrueDiv(k, n)
  IN  [i \in 1..n |-> << Floor(FMulInt(thread_size, i - 1)),
                         Floor(FMulInt(thread_size, i)) >>]

FilterInit ==
  /\ \E k \in 0..MaxChunks : data \in Batches(k)
  /\ num_threads \in 1..MaxThreads
  /\ pc = "start"
  /\ valid_chunks = <<>>
  /\ splits = <<>>
  /\ loop_i = <<>>
  /\ valid_indices = <<>>

\* lines 21-30 and the dispatch of pool.map: the flags, the splits, and
\* every task at the start of its range
Partition ==
  /\ pc = "start"
  /\ valid_chunks' = [i \in 1..num_chunks |-> TRUE]
  /\ splits' = compute_splits(num_chunks, num_threads)
  /\ loop_i' = [w \in 1..num_threads |-> splits'[w][1]]
  /\ pc' = "pool"
  /\ UNCHANGED <<data, num_threads, valid_indices>>

\* one iteration of the loop of check_chunks in task w
CheckChunk(w) ==
  /\ pc = "pool"
  /\ loop_i[w] < splits[w][2]
  /\ LET i     == loop_i[w]
         chunk == data[i + 1]
     IN  valid_chunks' =
           IF count_nonzero(chunk) # num_chunk_pixels
             THEN [valid_chunks EXCEPT ![i + 1] = FALSE]
             ELSE valid_chunks
  /\ loop_i' = [loop_i EXCEPT ![w] = loop_i[w] + 1]
  /\ UNCHANGED <<data, num_threads, pc, splits, valid_indices>>

\* the indices i of 0..n-1 with flags[i+1], in increasing order
RECURSIVE IndicesOf(_, _)
IndicesOf(flags, n) ==
  IF n = 0 THEN <<>>
  ELSE IF flags[n] THEN Append(IndicesOf(flags, n - 1), n - 1)
  ELSE IndicesOf(flags, n - 1)

\* pool.map has returned (every task has run to its stop index); lines
\* 46-57 collect the indices still flagged valid and return those chunks
Collect ==
  /\ pc = "pool"
  /\ \A w \in 1..num_threads : loop_i[w] >= splits[w][2]
  /\ valid_indices' = IndicesOf(valid_chunks, num_chunks)
  /\ pc' = "done"
  /\ UNCHANGED <<data, num_threads, valid_chunks, splits, loop_i>>

----------------------------------------------------------------------------
(* The image handles: DeltaImage and its subclasses TFRecordImage,         *)
(* SimpleTiff and RGBAImage.  The reader (image_reader), the record        *)
(* metadata (tfrecord_utils), the cache manager and the converter run by   *)
(* os.system are outside the file; the model keeps what the file does with *)
(* them: when it calls them and what it does with their answers.           *)

VARIABLES
  kind,              \* the class of the handle
  self_num_regions,  \* self._num_regions
  self_num_bands,    \* self._num_bands (TFRecordImage), None until resolved
  self_size,         \* self._size (TFRecordImage), None until resolved
  record_info,       \* what the file holds: its band count and its size
  target_exists,     \* os.path.exists(output_path) of an RGBAImage
  resolved,          \* a size() or get_num_bands() call has succeeded
  conversions,       \* how often os.system(cmd) has run
  produced,          \* how many of those runs left the target file
  num_calls,         \* calls made on the handle so far
  last               \* the last call: what it returned and what it did

imageVars ==
  <<kind, self_num_regions, self_num_bands, self_size, record_info,
    target_exists, resolved, conversions, produced, num_calls, last>>

None == <<>>

Kinds == {"TFRecordImage", "SimpleTiff", "RGBAImage"}

HandleSizes == {<<1, 1>>, <<MaxWidth, MaxHeight>>}

Infos == {[bands |-> b, size |-> s] : b \in 1..MaxBands, s \in HandleSizes}

\* self.path
path == "image.tif"

\* self._cache_manager.register_item(os.path.basename(self.path))
register_item(fname) == <<"cache", fname>>

\* The outcomes of the external steps of one call: created[n] tells whether
\* the n-th run of the converter leaves the target file, ok[n] whether the
\* n-th query of the reader or of the record metadata succeeds.
AllOutcomes == [created : [1..2 -> BOOLEAN], ok : [1..2 -> BOOLEAN]]

\* the outcomes for a call that runs the converter and queries the reader
\* at most n times each
Outcomes(n) ==
  {oc \in AllOutcomes :
     \A i \in 1..2 : i > n => ~oc.created[i] /\ ~oc.ok[i]}

\* the handle and the file system as a call finds them, with the counters
\* of what the call has done so far
Env ==
  [exists |-> target_exists, num_bands |-> self_num_bands,
   size |-> self_size, preps |-> 0, conversions |-> 0, produced |-> 0,
   queries |-> 0]

\* a call or a step of it: the environment it leaves, how it ended, and
\* the value it returned
Out(e, status, value) == [env |-> e, status |-> status, value |-> value]

\* TFRecordImage.prep
TFRecordImage_prep(e) == Out([e EXCEPT !.preps = @ + 1], "ok", None)

\* SimpleTiff.prep
SimpleTiff_prep(e) == Out([e EXCEPT !.preps = @ + 1], "ok", <<path>>)

\* RGBAImage.prep without the test of os.path.exists(output_path)
RGBAImage_prep_unconditional(e, oc) ==
  LET e1   == [e EXCEPT !.preps = @ + 1]
      made == oc.created[e1.conversions + 1]
  IN  Out([e1 EXCEPT !.exists = made,
                     !.conversions = @ + 1,
                     !.produced = @ + (IF made THEN 1 ELSE 0)],
          "ok", <<register_item(path)>>)

\* RGBAImage.prep
RGBAImage_prep(e, oc) ==
  LET output_path == register_item(path)
      e1          == [e EXCEPT !.preps = @ + 1]
      made        == oc.created[e1.conversions + 1]
  IN  IF ~e1.exists
        THEN Out([e1 EXCEPT !.exists = made,
                            !.conversions = @ + 1,
                            !.produced = @ + (IF made THEN 1 ELSE 0)],
                 "ok", <<output_path>>)
        ELSE Out(e1, "ok", <<output_path>>)

prep(e, oc) ==
  CASE kind = "TFRecordImage" -> TFRecordImage_prep(e)
    [] kind = "SimpleTiff"    -> SimpleTiff_prep(e)
    [] kind = "RGBAImage"     -> RGBAImage_prep(e, oc)

\* MultiTiffFileReader().load_images(input_paths): one query of the reader;
\* it fails when the reader says so, and it cannot open a converted file
\* that is not there
load_images(e, oc) ==
  LET e1 == [e EXCEPT !.queries = @ + 1]
      ok == oc.ok[e1.queries] /\ (kind = "RGBAImage" => e1.exists)
  IN  Out(e1, IF ok THEN "ok" ELSE "ReaderError", None)

\* TFRecordImage.__get_bands_size: one query of the record metadata
get_bands_size(e, oc) ==
  LET e1 == [e EXCEPT !.queries = @ + 1]
  IN  IF oc.ok[e1.queries]
        THEN Out([e1 EXCEPT !.num_bands = <<record_info.bands>>,
                            !.size = record_info.size], "ok", None)
        ELSE Out(e1, "ReaderError", None)

\* TFRecordImage.get_num_bands
TFRecordImage_get_num_bands(e, oc) ==
  LET r == IF e.num_bands = None THEN get_bands_size(e, oc)
           ELSE Out(e, "ok", None)
  IN  IF r.status = "ok" THEN Out(r.env, "ok", r.env.num_bands[1])
      ELSE r

\* TFRecordImage.size
TFRecordImage_size(e, oc) ==
  LET r == IF e.size = None THEN get_bands_size(e, oc)
           ELSE Out(e, "ok", None)
  IN  IF r.status = "ok" THEN Out(r.env, "ok", r.env.size)
      ELSE r

\* TiffImage.get_num_bands
TiffImage_get_num_bands(e, oc) ==
  LET input_paths == prep(e, oc)
      r           == load_images(input_paths.env, oc)
  IN  IF r.status = "ok" THEN Out(r.env, "ok", record_info.bands)
      ELSE r

\* TiffImage.size
TiffImage_size(e, oc) ==
  LET input_paths == prep(e, oc)
      r           == load_images(input_paths.env, oc)
  IN  IF r.status = "ok" THEN Out(r.env, "ok", record_info.size)
      ELSE r

get_num_bands(e, oc) ==
  IF kind = "TFRecordImage" THEN TFRecordImage_get_num_bands(e, oc)
  ELSE TiffImage_get_num_bands(e, oc)

size(e, oc) ==
  IF kind = "TFRecordImage" THEN TFRecordImage_size(e, oc)
  ELSE TiffImage_size(e, oc)

\* TFRecordImage.read raises; TiffImage.read prepares, loads and reads
read(e, oc) ==
  IF kind = "TFRecordImage" THEN Out(e, "NotImplementedError", None)
  ELSE
    LET input_paths == prep(e, oc)
        r           == load_images(input_paths.env, oc)
    IN  IF r.status = "ok" THEN Out(r.env, "ok", <<"pixels">>)
        ELSE r

\* TFRecordImage.chunk_image_region is the statement pass and returns
\* None; TiffImage.chunk_image_region prepares, loads and chunks
chunk_image_region(e, oc) ==
  IF kind = "TFRecordImage" THEN Out(e, "ok", None)
  ELSE
    LET input_paths == prep(e, oc)
        r           == load_images(input_paths.env, oc)
    IN  IF r.status = "ok" THEN Out(r.env, "ok", <<"chunk_data">>)
        ELSE r

\* DeltaImage.tiles, run to exhaustion: the list of the ROIs it yields
tiles(e, oc) ==
  LET s == size(e, oc)
  IN  IF s.status # "ok" THEN s
      ELSE Out(s.env, "ok",
               [i \in 1..self_num_regions |->
                  horizontal_split(s.value, i - 1, self_num_regions).rect])

\* estimate_memory_usage with the chunks spaced chunk_size + chunk_overlap
\* apart instead of chunk_size - chunk_overlap
estimate_memory_usage_wide(full_size, regions, handle_bands, chunk_size, chunk_overlap, elem_size, bands) ==
  LET nb         == IF bands < 1 THEN handle_bands ELSE bands
      height     == IntTrueDiv(full_size[2], regions)
      num_pixels == FMulInt(height, full_size[1])
      spacing    == chunk_size + chunk_overlap
      chunk_area == chunk_size * chunk_size
  IN  IF spacing * spacing = 0
        THEN [status |-> "ZeroDivisionError", value |-> FZero]
        ELSE [status |-> "ok",
              value  |-> FMulInt(FMulInt(FMulInt(
                           FDivInt(num_pixels, spacing * spacing),
                           chunk_area), nb), elem_size)]

\* Lines 153-159 of estimate_memory_usage for a handle whose size() is
\* full_size, whose _num_regions is regions and whose get_num_bands() is
\* handle_bands; elem_size is sys.getsizeof(data_type(0)).  The result is
\* a float, or the exception of the division by spacing*spacing.
estimate_memory_usage(full_size, regions, handle_bands, chunk_size, chunk_overlap, elem_size, bands) ==
  LET nb         == IF bands < 1 THEN handle_bands ELSE bands
      height     == IntTrueDiv(full_size[2], regions)
      num_pixels == FMulInt(height, full_size[1])
      spacing    == chunk_size - chunk_overlap
      chunk_area == chunk_size * chunk_size
  IN  IF spacing * spacing = 0
        THEN [status |-> "ZeroDivisionError", value |-> FZero]
        ELSE [status |-> "ok",
              value  |-> FMulInt(FMulInt(FMulInt(
                           FDivInt(num_pixels, spacing * spacing),
                           chunk_area), nb), elem_size)]

\* DeltaImage.estimate_memory_usage on the handle: get_num_bands() when no
\* band count is passed, then size(), then the arithmetic
DeltaImage_estimate_memory_usage(e, oc, chunk_size, chunk_overlap, elem_size, bands) ==
  LET b == IF bands < 1 THEN get_num_bands(e, oc) ELSE Out(e, "ok", bands)
  IN  IF b.status # "ok" THEN b
      ELSE
        LET full_size == size(b.env, oc)
        IN  IF full_size.status # "ok" THEN full_size
            ELSE
              LET r == estimate_memory_usage(full_size.value,
                         self_num_regions, b.value, chunk_size,
                         chunk_overlap, elem_size, bands)
              IN  Out(full_size.env, r.status, r.value)

NoLast ==
  [op |-> "none", status |-> "none", value |-> None, preps |-> 0,
   conversions |-> 0, queries |-> 0, existed |-> FALSE,
   was_resolved |-> FALSE]

\* a handle fresh from its constructor; the file it names holds some
\* record_info, and the converted file of an RGBAImage may be in the cache
\* already
ImageInit ==
  /\ kind \in Kinds
  /\ self_num_regions \in 1..MaxRegions
  /\ self_num_bands = None
  /\ self_size = None
  /\ record_info \in Infos
  /\ target_exists \in (IF kind = "RGBAImage" THEN BOOLEAN ELSE {FALSE})
  /\ resolved = FALSE
  /\ conversions = 0
  /\ produced = 0
  /\ num_calls = 0
  /\ last = NoLast

\* the call op on the handle ends as out
Call(op, out) ==
  /\ num_calls < MaxCalls
  /\ num_calls' = num_calls + 1
  /\ self_num_bands' = out.env.num_bands
  /\ self_size' = out.env.size
  /\ target_exists' = out.env.exists
  /\ conversions' = conversions + out.env.conversions
  /\ produced' = produced + out.env.produced
  /\ resolved' = (resolved \/ (op \in {"size", "get_num_bands"}
                                 /\ out.status = "ok"))
  /\ last' = [op |-> op, status |-> out.status, value |-> out.value,
              preps |-> out.env.preps,
              conversions |-> out.env.conversions,
              queries |-> out.env.queries,
              existed |-> target_exists,
              was_resolved |-> resolved]
  /\ UNCHANGED <<kind, self_num_regions, record_info>>

Prep(oc) == Call("prep", prep(Env, oc))

Size(oc) == Call("size", size(Env, oc))

GetNumBands(oc) == Call("get_num_bands", get_num_bands(Env, oc))

Read(oc) == Call("read", read(Env, oc))

ChunkImageRegion(oc) ==
  Call("chunk_image_region", chunk_image_region(Env, oc))

Tiles(oc) == Call("tiles", tiles(Env, oc))

EstimateMemoryUsage(oc, c, o, s, b) ==
  Call("estimate_memory_usage",
       DeltaImage_estimate_memory_usage(Env, oc, c, o, s, b))

\* no handle in use
ImageIdle ==
  /\ kind = "none"
  /\ self_num_regions = 1
  /\ self_num_bands = None
  /\ self_size = None
  /\ record_info = [bands |-> 1, size |-> <<1, 1>>]
  /\ target_exists = FALSE
  /\ resolved = FALSE
  /\ conversions = 0
  /\ produced = 0
  /\ num_calls = 0
  /\ last = NoLast

----------------------------------------------------------------------------
(* Two calls of estimate_memory_usage on one handle, with the same data    *)
(* type and chunk_overlap, to compare the estimates.                       *)

VARIABLES
  m_size,     \* what size() of the handle returns
  m_regions,  \* its _num_regions
  m_bands,    \* what its get_num_bands() returns
  m_overlap,  \* chunk_overlap of both calls
  m_elem,     \* sys.getsizeof(data_type(0)) of both calls
  first,      \* the first call: its chunk_size, num_bands and result
  second      \* the second call

memVars == <<m_size, m_regions, m_bands, m_overlap, m_elem, first, second>>

\* sys.getsizeof of a numpy scalar zero: 25 bytes for uint8, 32 for float64
ElemSizes == {25, 32}

NoEstimate ==
  [chunk_size |-> 0, num_bands |-> 0, status |-> "none", value |-> FZero]

Estimate(c, b) ==
  LET r == estimate_memory_usage(m_size, m_regions, m_bands, c, m_overlap,
                                 m_elem, b)
  IN  [chunk_size |-> c, num_bands |-> b, status |-> r.status,
       value |-> r.value]

MemInit ==
  /\ m_size \in HandleSizes
  /\ m_regions \in 1..MaxRegions
  /\ m_bands \in 1..MaxBands
  /\ m_overlap \in 0..MaxOverlap
  /\ m_elem \in ElemSizes
  /\ first = NoEstimate
  /\ second = NoEstimate

\* estimate_memory_usage(c, m_overlap, data_type, b)
EstimateFirst(c, b) ==
  /\ first.status = "none"
  /\ first' = Estimate(c, b)
  /\ UNCHANGED <<m_size, m_regions, m_bands, m_overlap, m_elem, second>>

\* a second call that differs from the first in chunk_size or in num_bands
EstimateSecond(c, b) ==
  /\ first.status # "none"
  /\ second.status = "none"
  /\ c = first.chunk_size \/ b = first.num_bands
  /\ second' = Estimate(c, b)
  /\ UNCHANGED <<m_size, m_regions, m_bands, m_overlap, m_elem, first>>

\* no estimate under comparison
MemIdle ==
  /\ m_size = <<1, 1>>
  /\ m_regions = 1
  /\ m_bands = 1
  /\ m_overlap = 0
  /\ m_elem = 32
  /\ first = NoEstimate
  /\ second = NoEstimate

----------------------------------------------------------------------------
(* Properties of the region splitters. *)

Width == image_size[1]

Height == image_size[2]

NonEmpty(r) == r.min_x < r.max_x /\ r.min_y < r.max_y

\* the half-open y-ranges of a and b share no row
DisjointY(a, b) == a.max_y <= b.min_y \/ b.max_y <= a.min_y

\* the half-open areas of a and b share no pixel
Disjoint(a, b) ==
  \/ a.max_x <= b.min_x \/ b.max_x <= a.min_x
  \/ a.max_y <= b.min_y \/ b.max_y <= a.min_y

\* C1: the num_splits bands of horizontal_split are pairwise disjoint in y,
\* consecutive bands are contiguous, band 0 starts at y = 0, the last band
\* ends at y = height, every band spans x in [0, width), and with one split
\* the band is the whole image.  (Fails: the band edges are floors of
\* floating-point products, and for height 15 split 11 ways the last edge
\* is floor(14.999999999999998) = 14.)
C1_BandsCoverImage ==
  (fn = "horizontal_split" /\ 0 <= region /\ region < num_splits) =>
    /\ ret.status = "Rectangle"
    /\ ret.rect.min_x = 0
    /\ ret.rect.max_x = Width
    /\ (region = 0 => ret.rect.min_y = 0)
    /\ (region = num_splits - 1 => ret.rect.max_y = Height)
    /\ (region < num_splits - 1 =>
          ret.rect.max_y =
            horizontal_split(image_size, region + 1, num_splits).rect.min_y)
    /\ \A j \in (0..(num_splits - 1)) \ {region} :
          DisjointY(ret.rect, horizontal_split(image_size, j, num_splits).rect)
    /\ (num_splits = 1 => ret.rect = Rectangle(0, 0, Width, Height))

\* C3: horizontal_split fails for every region outside 0..num_splits-1,
\* tile_split fails for every region outside 0..num_splits^2-1, and both
\* return a Rectangle for every region inside.  (Fails: only the upper end
\* of the range is asserted, a negative region is answered with a
\* Rectangle.)
C3_RegionRangeEnforced ==
  /\ fn = "horizontal_split" =>
       IF 0 <= region /\ region < num_splits
         THEN ret.status = "Rectangle"
         ELSE ret.status = "AssertionError"
  /\ fn = "tile_split" =>
       IF 0 <= region /\ region < num_splits * num_splits
         THEN ret.status = "Rectangle"
         ELSE ret.status = "AssertionError"

\* C4: tile_split lays the num_splits^2 regions out as a grid: region r is
\* tile (r div N, r mod N), from (floor(W/N)*col, floor(H/N)*row) to
\* (floor(W/N)*(col+1), floor(H/N)*(row+1)), the tiles are pairwise
\* disjoint and together they cover the image, that is, being contiguous,
\* the last column ends at x = W and the last row at y = H.  (Fails: the
\* strip beyond N*floor(W/N) or N*floor(H/N) belongs to no tile.)
C4_TilesCoverImage ==
  (fn = "tile_split" /\ 0 <= region /\ region < num_splits * num_splits) =>
    LET row == region \div num_splits
        col == region % num_splits
        tw  == Width \div num_splits
        th  == Height \div num_splits
    IN  /\ ret.status = "Rectangle"
        /\ ret.rect = Rectangle(tw * col, th * row, tw * (col + 1), th * (row + 1))
        /\ \A j \in (0..(num_splits * num_splits - 1)) \ {region} :
              Disjoint(ret.rect, tile_split(image_size, j, num_splits).rect)
        /\ (col = num_splits - 1 => ret.rect.max_x = Width)
        /\ (row = num_splits - 1 => ret.rect.max_y = Height)

\* C9: every Rectangle returned by horizontal_split or tile_split for a
\* valid region, and every Rectangle yielded by tiles(), is non-empty
\* (min_x < max_x and min_y < max_y) whenever width >= 1, height >= 1 and
\* the split count is >= 1.  (Fails: with fewer rows than bands, or fewer
\* rows or columns than tiles per side, some regions are empty, as
\* horizontal_split((1, 1), 0, 2) = Rectangle(0, 0, 1, 0).)
C9_AlwaysNonEmpty ==
  (/\ fn \in {"horizontal_split", "tile_split", "tiles"}
   /\ 0 <= region
   /\ ret.status = "Rectangle") => NonEmpty(ret.rect)

----------------------------------------------------------------------------
(* Properties of the chunk validity filter. *)

\* the chunks task w has examined so far
Examined(w) == {i \in 0..(num_chunks - 1) : splits[w][1] <= i /\ i < loop_i[w]}

\* chunk i is all zero (every pixel of band 0 is the no-data value)
AllZero(i) == count_nonzero(data[i + 1]) = 0

\* chunk i is all data (no pixel of band 0 is the no-data value)
AllData(i) == count_nonzero(data[i + 1]) = num_chunk_pixels

\* C2: for a batch whose chunks are each all zero or all data, run with
\* 1..K threads, the filter returns exactly the chunks that are not all
\* zero, in their original order, whatever the interleaving.  (Fails: with
\* 15 chunks and 11 threads the last task stops at floor(14.99...) = 14,
\* chunk 14 is never examined and is returned even when it is all zero.)
C2_FilterReturnsNonZeroChunks ==
  (/\ pc = "done"
   /\ num_threads <= num_chunks
   /\ \A i \in 0..(num_chunks - 1) : AllZero(i) \/ AllData(i)) =>
     /\ \A i \in 0..(num_chunks - 1) :
          (\E j \in 1..Len(valid_indices) : valid_indices[j] = i) <=> ~AllZero(i)
     /\ \A j \in 1..(Len(valid_indices) - 1) :
          valid_indices[j] < valid_indices[j + 1]

\* C10: the task ranges are [floor(i*K/T), floor((i+1)*K/T)), contiguous,
\* disjoint and covering [0, K); no chunk is ever examined by two tasks,
\* and when the indices are collected every chunk has been examined by
\* exactly one task.  (Fails: the ranges are floors of floating-point
\* products and the last one can stop short of K.)
C10_RangesPartitionChunks ==
  pc \in {"pool", "done"} =>
    /\ \A w \in 1..num_threads :
         /\ splits[w][1] = ((w - 1) * num_chunks) \div num_threads
         /\ splits[w][2] = (w * num_chunks) \div num_threads
    /\ splits[1][1] = 0
    /\ splits[num_threads][2] = num_chunks
    /\ \A w \in 1..(num_threads - 1) : splits[w][2] = splits[w + 1][1]
    /\ \A v, w \in 1..num_threads : v # w => Examined(v) \cap Examined(w) = {}
    /\ (pc = "done" =>
          \A i \in 0..(num_chunks - 1) :
            Cardinality({w \in 1..num_threads : i \in Examined(w)}) = 1)

----------------------------------------------------------------------------
(* Properties of the image handles. *)

\* the calls that need the size or the band count of the image
Lookups == {"size", "get_num_bands", "tiles", "estimate_memory_usage"}

\* C5: once a size() or get_num_bands() call has succeeded on a handle of
\* any class, no later size(), get_num_bands(), tiles() or
\* estimate_memory_usage() call queries the reader or the record metadata,
\* and each of them returns the resolved values.  (Fails: TiffImage.size
\* and TiffImage.get_num_bands open a new reader on every call.)
C5_ResolvedNeverRequeried ==
  (last.was_resolved /\ last.op \in Lookups) =>
    /\ last.queries = 0
    /\ last.status # "ReaderError"
    /\ (last.op = "size" => last.value = record_info.size)
    /\ (last.op = "get_num_bands" => last.value = record_info.bands)

\* the calls that run prep() on a TiffImage
Preparing ==
  {"prep", "size", "get_num_bands", "read", "chunk_image_region", "tiles",
   "estimate_memory_usage"}

C7_TFRecordPixelAccessUnsupported ==
  (kind = "TFRecordImage" /\ last.op \in {"read", "chunk_image_region"}) =>
    last.status = "NotImplementedError"

----------------------------------------------------------------------------
(* Properties of the memory estimate. *)

BothEstimated == first.status = "ok" /\ second.status = "ok"

\* C8 as stated: for chunk sizes c1 < c2 above chunk_overlap and the same
\* band count the estimate for c2 is at least that for c1, and for passed
\* band counts 1 <= b1 < b2 and the same chunk size the estimate for b2 is
\* at least that for b1.
C8_MonotoneIncreasing ==
  BothEstimated =>
    /\ (/\ first.num_bands = second.num_bands
        /\ m_overlap < first.chunk_size
        /\ first.chunk_size < second.chunk_size)
         => FLeq(first.value, second.value)
    /\ (/\ first.chunk_size = second.chunk_size
        /\ 1 <= first.num_bands
        /\ first.num_bands < second.num_bands)
         => FLeq(first.value, second.value)

\* C8 as amended: the estimate never decreases with the passed band count
\* (1 <= b1 < b2, same chunk size), but with a chunk_overlap of at least 1
\* it strictly decreases with the chunk size: for 1 <= chunk_overlap < c1
\* < c2 and the same band count the estimate for c2 is smaller than that
\* for c1.
C8_UpInBandsDownInChunkSize ==
  BothEstimated =>
    /\ (/\ first.chunk_size = second.chunk_size
        /\ 1 <= first.num_bands
        /\ first.num_bands < second.num_bands)
         => FLeq(first.value, second.value)
    /\ (/\ first.num_bands = second.num_bands
        /\ 1 <= m_overlap
        /\ m_overlap < first.chunk_size
        /\ first.chunk_size < second.chunk_size)
         => FLess(second.value, first.value)

\* two estimates with overlap 1 and chunk sizes 2 and 3: the second is the
\* smaller one
C8_Witness ==
  /\ BothEstimated
  /\ m_overlap = 1
  /\ first.chunk_size = 2
  /\ second.chunk_size = 3
  /\ first.num_bands = second.num_bands
  /\ FLess(second.value, first.value)

----------------------------------------------------------------------------
(* Specifications.  Each one runs one part of the module and leaves the    *)
(* variables of the other parts at rest.                                    *)

\* no filter call in progress
FilterIdle ==
  /\ data = <<>>
  /\ num_threads = 1
  /\ pc = "idle"
  /\ valid_chunks = <<>>
  /\ splits = <<>>
  /\ loop_i = <<>>
  /\ valid_indices = <<>>

vars == <<splitVars, filterVars, imageVars, memVars>>

\* the region splitters
SplitStart == SplitInit /\ FilterIdle /\ ImageIdle /\ MemIdle

SplitRest == UNCHANGED <<filterVars, imageVars, memVars>>

SplitNext ==
  \/ \E r \in -1..num_splits : HorizontalSplit(r) /\ SplitRest
  \/ \E r \in -1..(num_splits * num_splits) : TileSplit(r) /\ SplitRest
  \/ TilesYield /\ SplitRest

SpecSplit == SplitStart /\ [][SplitNext]_vars

\* the chunk validity filter
FilterStart == FilterInit /\ SplitIdle /\ ImageIdle /\ MemIdle

FilterRest == UNCHANGED <<splitVars, imageVars, memVars>>

FilterNext ==
  \/ Partition /\ FilterRest
  \/ \E w \in 1..num_threads : CheckChunk(w) /\ FilterRest
  \/ Collect /\ FilterRest

SpecFilter == FilterStart /\ [][FilterNext]_vars

\* the image handles
ImageStart == ImageInit /\ SplitIdle /\ FilterIdle /\ MemIdle

ImageRest == UNCHANGED <<splitVars, filterVars, memVars>>

ImageNext ==
  \/ \E oc \in Outcomes(1) : Prep(oc) /\ ImageRest
  \/ \E oc \in Outcomes(1) : Size(oc) /\ ImageRest
  \/ \E oc \in Outcomes(1) : GetNumBands(oc) /\ ImageRest
  \/ \E oc \in Outcomes(1) : Read(oc) /\ ImageRest
  \/ \E oc \in Outcomes(1) : ChunkImageRegion(oc) /\ ImageRest
  \/ \E oc \in Outcomes(1) : Tiles(oc) /\ ImageRest
  \/ \E oc \in Outcomes(2), c \in 1..2, b \in 0..1 :
       EstimateMemoryUsage(oc, c, 1, 32, b) /\ ImageRest

SpecImage == ImageStart /\ [][ImageNext]_vars

\* the memory estimate
MemStart == MemInit /\ SplitIdle /\ FilterIdle /\ ImageIdle

MemRest == UNCHANGED <<splitVars, filterVars, imageVars>>

MemNext ==
  \/ \E c \in 1..MaxChunkSize, b \in 0..MaxBands :
       EstimateFirst(c, b) /\ MemRest
  \/ \E c \in 1..MaxChunkSize, b \in 0..MaxBands :
       EstimateSecond(c, b) /\ MemRest

SpecMem == MemStart /\ [][MemNext]_vars

====
